---- MODULE Spec2Model ----
(***************************************************************************)
(* The list-state engine of the admin-ui widget: the AdminUI component     *)
(* (src/src/AdminUI/AdminUI.tsx) with its two hooks, usePagination         *)
(* (src/src/hooks/usePagination.ts) and usePaginatedList                   *)
(* (src/src/hooks/usePaginatedList.ts).                                    *)
(*                                                                         *)
(* One action per event handler.  An action is the handler together with   *)
(* the React effects its state updates trigger, run until no dependency    *)
(* changes any more (React runs them before the next event is handled).    *)
(* A handler is enabled when the element it is wired to is rendered and    *)
(* not disabled.                                                           *)
(***************************************************************************)
EXTENDS Integers, Sequences, FiniteSets, TLC

(***************************************************************************)
(* Bounds of the model.  The component fixes PAGE_SIZE at 10               *)
(* (AdminUI.tsx:35); the model scales the page size down so that a list of *)
(* MaxRecords records still spans three pages.                             *)
(***************************************************************************)
MaxRecords == 5
PAGE_SIZE == 2
\* the number of events (handler runs) of a behaviour
MaxSteps == 5
\* the number of requests useApiService starts in a behaviour
MaxRequests == 3
\* the largest totalPages the page window is computed for
MaxPages == 10
\* the longest list, and the largest page size, the page slices are taken of
MaxLen == 4
MaxPageSize == 3

\* usePagination.ts:17-18
boundaryCount == 1
siblingCount == 1

Min(a, b) == IF a < b THEN a ELSE b
Max(a, b) == IF a > b THEN a ELSE b

(***************************************************************************)
(* Strings are sequences of one-character strings, so that toLowerCase and *)
(* includes are computed and not assumed.                                  *)
(***************************************************************************)
toLowerCaseChar(c) ==
  CASE c = "A" -> "a"
    [] c = "B" -> "b"
    [] c = "C" -> "c"
    [] OTHER -> c

toLowerCase(s) == [i \in 1..Len(s) |-> toLowerCaseChar(s[i])]

\* mutant of includes: the empty text occurs in no string
includesNonEmpty(s, t) ==
  /\ Len(t) > 0
  /\ \E i \in 0..(Len(s) - Len(t)) : SubSeq(s, i + 1, i + Len(t)) = t

\* String.prototype.includes: t occurs in s as a contiguous substring.
includes(s, t) ==
  \E i \in 0..(Len(s) - Len(t)) : SubSeq(s, i + 1, i + Len(t)) = t

\* mutant of slice: the element at index `end` is included
sliceInclusive(items, start, end) ==
  SubSeq(items, start + 1, Min(end + 1, Len(items)))

\* Array.prototype.slice(start, end) for 0 <= start <= end (0-based, end exclusive).
slice(items, start, end) == SubSeq(items, start + 1, Min(end, Len(items)))

(***************************************************************************)
(* The records the fetch can return: n records with ids 1..n, for n in     *)
(* ResponseSizes.  The text "A" matches record 1 by name (case-            *)
(* insensitively) and record 3 by email.                                   *)
(***************************************************************************)
Roles == {"admin", "member"}

NameOf(i) ==
  CASE i = 1 -> <<"A", "b">>
    [] i = 2 -> <<"b">>
    [] i = 3 -> <<"c">>
    [] i = 4 -> <<"b", "c">>
    [] OTHER -> <<"c">>

EmailOf(i) ==
  CASE i = 3 -> <<"a", "x">>
    [] OTHER -> <<"x">>

RoleOf(i) == IF i = 1 THEN "admin" ELSE "member"

\* A TUser as parsed from the response: the optional field `delete` is absent
\* (falsy), modelled as FALSE.
User(i) ==
  [id |-> i, name |-> NameOf(i), email |-> EmailOf(i), role |-> RoleOf(i),
   delete |-> FALSE]

Response(n) == [i \in 1..n |-> User(i)]

ResponseSizes == {0, MaxRecords}

\* What the operator can type into the search box and the edit inputs.
SearchTexts == {<<>>, <<"A">>}
DraftNames == {<<"z">>}
DraftEmails == {<<"y">>}

VARIABLES
  original,       \* AdminUI.tsx:61  the canonical list
  list,           \* AdminUI.tsx:63  the displayed list
  searchText,     \* AdminUI.tsx:64
  editIndex,      \* AdminUI.tsx:66  index into `list` of the row in edit mode, -1 if none
  name,           \* AdminUI.tsx:67  draft
  email,          \* AdminUI.tsx:68  draft
  role,           \* AdminUI.tsx:69  draft
  loading,        \* AdminUI.tsx:59
  error,          \* AdminUI.tsx:60
  currentPage,    \* usePagination.ts:20  (1-based)
  total,          \* usePagination.ts:21
  plOriginal,     \* usePaginatedList.ts:12  the hook's copy of the list
  plCurrentPage,  \* usePaginatedList.ts:13  (0-based)
  mounted,        \* AdminUI is mounted (AdminUI.tsx:106-114)
  apiState,       \* useApiService (unnamed/part_001:49): {data, error, loading}
  apiRef,         \* useApiService abortControllerRef.current: request number, 0 if null
  apiReqs,        \* the requests useApiService has started: {aborted, phase}
  input,          \* argument of the pure function under check
  output,         \* its result
  lastReq,        \* history: the request whose completion ran last, 0 if none
  queryText,      \* history: the search text of the last executed search
  editTarget,     \* history: the id of the record the open edit was begun on, 0 if none
  lastOp,         \* history: the handler that ran last
  prevOp,         \* history: the handler that ran before the last one
  prevOriginal,   \* history: `original` before the handler that ran last
  prevList,       \* history: `list` before the handler that ran last
  steps           \* history: the number of handlers run so far

vars ==
  <<original, list, searchText, editIndex, name, email, role, loading, error,
    currentPage, total, plOriginal, plCurrentPage, mounted, apiState, apiRef,
    apiReqs, input, output, lastReq, queryText, editTarget, lastOp, prevOp,
    prevOriginal, prevList, steps>>

(***************************************************************************)
(* usePagination: derived values (usePagination.ts:24-30, 58-124).         *)
(***************************************************************************)
\* Math.ceil(n / d) for n >= 0, d > 0
ceilDiv(n, d) == (n + d - 1) \div d

totalPagesOf(count) == Max(ceilDiv(count, PAGE_SIZE), 1)

totalPages == totalPagesOf(total)

canGoNext == currentPage < totalPages
canGoPrev == currentPage > 1

range(start, end) ==
  IF start > end THEN <<>> ELSE [i \in 1..(end - start + 1) |-> start + i - 1]

startPagesOf(tp) == range(1, Min(boundaryCount, tp))

\* mutant of endPagesOf: the end block may start inside the start block
endPagesOfUnguarded(tp) == range(tp - boundaryCount + 1, tp)

endPagesOf(tp) == range(Max(tp - boundaryCount + 1, boundaryCount + 1), tp)

siblingsStartOf(cp, tp) ==
  Max(Min(cp - siblingCount, tp - boundaryCount - siblingCount * 2 - 1),
      boundaryCount + 1)

siblingsEndOf(cp, tp) ==
  Min(Max(cp + siblingCount, boundaryCount + siblingCount * 2 + 2),
      tp - boundaryCount)

\* A page token {value, isSelected}; the "..." token is the one with gap = TRUE
\* (its value field is not a page number).
PageToken(cp, page) == [value |-> page, gap |-> FALSE, isSelected |-> page = cp]
GapToken == [value |-> 0, gap |-> TRUE, isSelected |-> FALSE]

pageTokens(cp, pages) == [i \in 1..Len(pages) |-> PageToken(cp, pages[i])]

paginationOf(cp, tp) ==
  pageTokens(cp, startPagesOf(tp))
    \o (IF siblingsStartOf(cp, tp) > boundaryCount + 1 THEN <<GapToken>> ELSE <<>>)
    \o pageTokens(cp, range(siblingsStartOf(cp, tp), siblingsEndOf(cp, tp)))
    \o (IF siblingsEndOf(cp, tp) < tp - boundaryCount THEN <<GapToken>> ELSE <<>>)
    \o pageTokens(cp, endPagesOf(tp))

pagination == paginationOf(currentPage, totalPages)

(***************************************************************************)
(* usePaginatedList: the page slice (usePaginatedList.ts:28-33).           *)
(***************************************************************************)
paginatedListOf(items, page) ==
  slice(items, page * PAGE_SIZE, (page + 1) * PAGE_SIZE)

paginatedList == paginatedListOf(plOriginal, plCurrentPage)

(***************************************************************************)
(* AdminUI: derived values.                                                *)
(***************************************************************************)
\* AdminUI.tsx:71-74
selectedCount == Len(SelectSeq(list, LAMBDA item : item.delete))

\* AdminUI.tsx:136-142: the records whose email or name contains the text,
\* case-insensitively.
searchFilter(items, text) ==
  SelectSeq(items,
    LAMBDA item :
      \/ includes(toLowerCase(item.email), toLowerCase(text))
      \/ includes(toLowerCase(item.name), toLowerCase(text)))

\* Array.prototype.findIndex over `list` by id (0-based, -1 when absent).
findIndex(items, id) ==
  IF \E i \in 1..Len(items) : items[i].id = id
    THEN (CHOOSE i \in 1..Len(items) :
            /\ items[i].id = id
            /\ \A j \in 1..(i - 1) : items[j].id # id) - 1
    ELSE -1

\* The rows of the table body (AdminUI.tsx:278-352): rendered once loading is
\* over; row `index` shows Save when it is the row in edit mode, and the edit
\* and delete buttons otherwise.
rowsShown == IF loading THEN <<>> ELSE list
editRowShown == editIndex >= 0 /\ editIndex < Len(rowsShown)
rowIds == {rowsShown[i].id : i \in 1..Len(rowsShown)}
actionRowIds == {rowsShown[i].id : i \in {j \in 1..Len(rowsShown) : j - 1 # editIndex}}

(***************************************************************************)
(* State updates with the effects they trigger.                            *)
(***************************************************************************)
\* mutant of setOriginal: the displayed list is not refreshed from the hook
setOriginalKeepingList(next) ==
  /\ original' = next
  /\ plOriginal' = next
  /\ total' = Len(next)
  /\ UNCHANGED <<list, currentPage, plCurrentPage>>

\* setOriginal(next) with a fresh array; then the effect on [original]
\* (AdminUI.tsx:116-121: updateList, updateTotalItems) and, the hook's
\* paginatedList being recomputed, the effect setList(paginatedList)
\* (AdminUI.tsx:224-226).  currentPage is not touched.
setOriginal(next) ==
  /\ original' = next
  /\ plOriginal' = next
  /\ total' = Len(next)
  /\ list' = paginatedListOf(next, plCurrentPage)
  /\ UNCHANGED <<currentPage, plCurrentPage>>

\* setCurrentPage(page) in usePagination; when the value changes, the effect on
\* [currentPage] (AdminUI.tsx:123-126: setSearchText(""), updateCurrentPage) and
\* then setList(paginatedList).  Setting the same value re-runs nothing.
setCurrentPage(page) ==
  IF page = currentPage
    THEN UNCHANGED <<currentPage, plCurrentPage, searchText, list>>
    ELSE /\ currentPage' = page
         /\ plCurrentPage' = page - 1
         /\ searchText' = <<>>
         /\ list' = paginatedListOf(plOriginal, page - 1)

\* One more event of the mounted AdminUI, named op: bookkeeping of the history
\* variables; the component stays mounted unless the event is its unmount, and
\* nothing of useApiService or of the pure functions under check is touched.
step(op) ==
  /\ mounted
  /\ mounted' = (op # "unmount")
  /\ steps < MaxSteps
  /\ steps' = steps + 1
  /\ lastOp' = op
  /\ prevOp' = lastOp
  /\ prevOriginal' = original
  /\ prevList' = list
  /\ lastReq' = 0
  /\ UNCHANGED <<apiState, apiRef, apiReqs, input, output>>

\* null, and a value that is not null
Null == <<>>
Some(v) == <<v>>

\* AdminUI after its first render
AdminInit ==
  /\ original = <<>>
  /\ list = <<>>
  /\ searchText = <<>>
  /\ editIndex = -1
  /\ name = <<>>
  /\ email = <<>>
  /\ role = "member"
  /\ loading = TRUE
  /\ error = ""
  /\ currentPage = 1
  /\ total = 0
  /\ plOriginal = <<>>
  /\ plCurrentPage = 0
  /\ mounted = TRUE
  /\ queryText = <<>>
  /\ editTarget = 0
  /\ prevOriginal = <<>>
  /\ prevList = <<>>

\* useApiService before its first trigger (unnamed/part_001:19-23, 49-51)
ApiInit ==
  /\ apiState = [data |-> Null, error |-> Null, loading |-> FALSE]
  /\ apiRef = 0
  /\ apiReqs = <<>>
  /\ lastReq = 0

HistoryInit ==
  /\ lastOp = "mount"
  /\ prevOp = "mount"
  /\ steps = 0

Init ==
  /\ AdminInit
  /\ ApiInit
  /\ HistoryInit
  /\ input = <<>>
  /\ output = <<>>

(***************************************************************************)
(* fetchData (AdminUI.tsx:76-104), started once on mount.                  *)
(***************************************************************************)
\* response.ok: setOriginal(await response.json()); finally setLoading(false)
fetchSuccess(n) ==
  /\ loading
  /\ setOriginal(Response(n))
  /\ loading' = FALSE
  /\ queryText' = <<>>
  /\ step("fetchSuccess")
  /\ UNCHANGED <<searchText, editIndex, name, email, role, error, editTarget>>

\* !response.ok or a transport error: setError(message); finally setLoading(false)
fetchFailure ==
  /\ loading
  /\ error' = "Something went wrong!"
  /\ loading' = FALSE
  /\ step("fetchFailure")
  /\ UNCHANGED <<original, list, searchText, editIndex, name, email, role,
                 currentPage, total, plOriginal, plCurrentPage, queryText,
                 editTarget>>

\* mutant of unmount: the AbortError is reported like any other error
unmountReportingAbort ==
  /\ loading
  /\ error' = "The operation was aborted."
  /\ loading' = FALSE
  /\ step("unmount")
  /\ UNCHANGED <<original, list, searchText, editIndex, name, email, role,
                 currentPage, total, plOriginal, plCurrentPage, queryText,
                 editTarget>>

\* Unmount while the request is outstanding (AdminUI.tsx:109-113): the cleanup
\* aborts it, fetch rejects with an AbortError, the catch returns without
\* setError (93-96) and finally runs setLoading(false) (101-103).
unmount ==
  /\ loading
  /\ loading' = FALSE
  /\ step("unmount")
  /\ UNCHANGED <<original, list, searchText, editIndex, name, email, role,
                 error, currentPage, total, plOriginal, plCurrentPage,
                 queryText, editTarget>>

(***************************************************************************)
(* Search (AdminUI.tsx:128-143).                                           *)
(***************************************************************************)
onSearch(text) ==
  /\ text # searchText
  /\ searchText' = text
  /\ step("onSearch")
  /\ UNCHANGED <<original, list, editIndex, name, email, role, loading, error,
                 currentPage, total, plOriginal, plCurrentPage, queryText,
                 editTarget>>

onSearchIconClick ==
  /\ list' = searchFilter(original, searchText)
  /\ queryText' = searchText
  /\ step("onSearchIconClick")
  /\ UNCHANGED <<original, searchText, editIndex, name, email, role, loading,
                 error, currentPage, total, plOriginal, plCurrentPage,
                 editTarget>>

(***************************************************************************)
(* Selection (AdminUI.tsx:145-167).                                        *)
(***************************************************************************)
\* mutant of toggleAll: the records of the page are all selected, or all
\* deselected when every one of them was selected
toggleAllSet(items, page) ==
  LET onPage(index) ==
        (index - 1) >= (page - 1) * PAGE_SIZE /\ (index - 1) < page * PAGE_SIZE
      every == \A index \in 1..Len(items) : onPage(index) => items[index].delete
  IN  [index \in 1..Len(items) |->
         IF onPage(index)
           THEN [items[index] EXCEPT !.delete = ~every]
           ELSE items[index]]

\* id === "all": every record whose index in `original` lies in the current
\* page's index range has its flag negated.
toggleAll(items, page) ==
  [index \in 1..Len(items) |->
     IF (index - 1) >= (page - 1) * PAGE_SIZE /\ (index - 1) < page * PAGE_SIZE
       THEN [items[index] EXCEPT !.delete = ~items[index].delete]
       ELSE items[index]]

\* a row's checkbox: the record with that id has its flag negated.
toggleOne(items, id) ==
  [index \in 1..Len(items) |->
     IF items[index].id = id
       THEN [items[index] EXCEPT !.delete = ~items[index].delete]
       ELSE items[index]]

onCheckboxClickAll ==
  /\ setOriginal(toggleAll(original, currentPage))
  /\ step("onCheckboxClickAll")
  /\ UNCHANGED <<searchText, editIndex, name, email, role, loading, error,
                 queryText, editTarget>>

onCheckboxClick(id) ==
  /\ id \in rowIds
  /\ setOriginal(toggleOne(original, id))
  /\ step("onCheckboxClick")
  /\ UNCHANGED <<searchText, editIndex, name, email, role, loading, error,
                 queryText, editTarget>>

(***************************************************************************)
(* Delete (AdminUI.tsx:169-178).                                           *)
(***************************************************************************)
\* mutant of deleteSelected: only the selected records of the displayed list go
deleteSelectedShown(items) ==
  SelectSeq(items,
    LAMBDA item :
      ~(item.delete /\ item.id \in {list[i].id : i \in 1..Len(list)}))

deleteSelected(items) == SelectSeq(items, LAMBDA item : ~item.delete)

deleteOne(items, id) == SelectSeq(items, LAMBDA item : item.id # id)

\* the button is disabled while selectedCount === 0 (AdminUI.tsx:231-237)
onDeleteSelectedClick ==
  /\ selectedCount # 0
  /\ setOriginal(deleteSelected(original))
  /\ step("onDeleteSelectedClick")
  /\ UNCHANGED <<searchText, editIndex, name, email, role, loading, error,
                 queryText, editTarget>>

onDeleteClick(id) ==
  /\ id \in actionRowIds
  /\ setOriginal(deleteOne(original, id))
  /\ step("onDeleteClick")
  /\ UNCHANGED <<searchText, editIndex, name, email, role, loading, error,
                 queryText, editTarget>>

(***************************************************************************)
(* Inline edit (AdminUI.tsx:180-222).                                      *)
(***************************************************************************)
\* mutant of onEditClick: the open draft is committed before the switch
onEditClickCommitting(id) ==
  /\ id \in actionRowIds
  /\ findIndex(list, id) >= 0
  /\ editIndex' = findIndex(list, id)
  /\ name' = list[findIndex(list, id) + 1].name
  /\ email' = list[findIndex(list, id) + 1].email
  /\ role' = list[findIndex(list, id) + 1].role
  /\ editTarget' = id
  /\ original' = IF editIndex >= 0
                   THEN [i \in 1..Len(original) |->
                           IF (i - 1) = (currentPage - 1) * PAGE_SIZE + editIndex
                             THEN [original[i] EXCEPT !.name = name,
                                                      !.role = role,
                                                      !.email = email]
                             ELSE original[i]]
                   ELSE original
  /\ step("onEditClick")
  /\ UNCHANGED <<list, searchText, loading, error, currentPage, total,
                 plOriginal, plCurrentPage, queryText>>

onEditClick(id) ==
  /\ id \in actionRowIds
  /\ findIndex(list, id) >= 0
  /\ editIndex' = findIndex(list, id)
  /\ name' = list[findIndex(list, id) + 1].name
  /\ email' = list[findIndex(list, id) + 1].email
  /\ role' = list[findIndex(list, id) + 1].role
  /\ editTarget' = id
  /\ step("onEditClick")
  /\ UNCHANGED <<original, list, searchText, loading, error, currentPage, total,
                 plOriginal, plCurrentPage, queryText>>

onNameEdit(value) ==
  /\ editRowShown
  /\ value # name
  /\ name' = value
  /\ step("onNameEdit")
  /\ UNCHANGED <<original, list, searchText, editIndex, email, role, loading,
                 error, currentPage, total, plOriginal, plCurrentPage, queryText,
                 editTarget>>

onEmailEdit(value) ==
  /\ editRowShown
  /\ value # email
  /\ email' = value
  /\ step("onEmailEdit")
  /\ UNCHANGED <<original, list, searchText, editIndex, name, role, loading,
                 error, currentPage, total, plOriginal, plCurrentPage, queryText,
                 editTarget>>

onRoleChange(value) ==
  /\ editRowShown
  /\ value # role
  /\ role' = value
  /\ step("onRoleChange")
  /\ UNCHANGED <<original, list, searchText, editIndex, name, email, loading,
                 error, currentPage, total, plOriginal, plCurrentPage, queryText,
                 editTarget>>

\* AdminUI.tsx:210-216: the record at index (currentPage - 1) * PAGE_SIZE +
\* editIndex of `original` takes the draft.
saveAt(items, page, index, n, e, r) ==
  [i \in 1..Len(items) |->
     IF (i - 1) = (page - 1) * PAGE_SIZE + index
       THEN [items[i] EXCEPT !.name = n, !.role = r, !.email = e]
       ELSE items[i]]

onSaveClick ==
  /\ editRowShown
  /\ setOriginal(saveAt(original, currentPage, editIndex, name, email, role))
  /\ editIndex' = -1
  /\ name' = <<>>
  /\ email' = <<>>
  /\ role' = "member"
  /\ editTarget' = 0
  /\ step("onSaveClick")
  /\ UNCHANGED <<searchText, loading, error, queryText>>

(***************************************************************************)
(* Navigation (usePagination.ts:40-56, buttons AdminUI.tsx:371-411).       *)
(***************************************************************************)
navFrame ==
  UNCHANGED <<original, editIndex, name, email, role, loading, error, total,
              plOriginal, queryText, editTarget>>

\* a numbered button of the page window; the selected one is disabled
goToPage(page) ==
  /\ \E i \in 1..Len(pagination) :
       /\ ~pagination[i].gap
       /\ ~pagination[i].isSelected
       /\ pagination[i].value = page
  /\ setCurrentPage(Max(1, Min(page, totalPages)))
  /\ step("goToPage")
  /\ navFrame

nextPage ==
  /\ canGoNext
  /\ setCurrentPage(currentPage + 1)
  /\ step("nextPage")
  /\ navFrame

previousPage ==
  /\ canGoPrev
  /\ setCurrentPage(currentPage - 1)
  /\ step("previousPage")
  /\ navFrame

\* disabled unless canGoFirst (= canGoPrev)
firstPage ==
  /\ canGoPrev
  /\ setCurrentPage(1)
  /\ step("firstPage")
  /\ navFrame

\* disabled unless canGoLast (= canGoNext)
lastPage ==
  /\ canGoNext
  /\ setCurrentPage(totalPages)
  /\ step("lastPage")
  /\ navFrame

(***************************************************************************)
(* useApiService (src/unnamed/part_001).  A request is {aborted, phase}:   *)
(* aborted is its AbortController's signal, phase is "fetching" (await     *)
(* fetch), "reading" (await response.json()) or "settled".  The payload of *)
(* request i is the number i, or 0 for a response body that is falsy.      *)
(***************************************************************************)
adminVars ==
  <<original, list, searchText, editIndex, name, email, role, loading, error,
    currentPage, total, plOriginal, plCurrentPage, mounted, queryText,
    editTarget, prevOriginal, prevList>>

\* part_001:25-43; a field the action does not carry is undefined (falsy):
\* payload 0, error ""
apiServiceReducer(state, action) ==
  CASE action.type = "REQUEST" ->
         [state EXCEPT !.loading = TRUE, !.error = Null]
    [] action.type = "SUCCESS" ->
         [state EXCEPT
            !.data = IF action.payload = 0 THEN Null ELSE Some(action.payload),
            !.loading = FALSE]
    [] action.type = "FAILURE" ->
         [state EXCEPT
            !.error = Some(IF action.error = "" THEN "Something went wrong!"
                                                ELSE action.error),
            !.loading = FALSE]
    [] OTHER -> state

dispatch(action) == apiState' = apiServiceReducer(apiState, action)

abort(reqs, i) == [reqs EXCEPT ![i].aborted = TRUE]

settle(reqs, i) == [reqs EXCEPT ![i].phase = "settled"]

\* mutant of abortPrior: the request in flight is left running
abortPriorMissing(reqs, ref) == reqs

\* part_001:60-62: if (abortControllerRef.current) abortControllerRef.current.abort()
abortPrior(reqs, ref) == IF ref # 0 THEN abort(reqs, ref) ELSE reqs

\* one more event of useApiService, named op, about request req (0 if none)
apiStep(op, req) ==
  /\ steps < MaxSteps
  /\ steps' = steps + 1
  /\ lastOp' = op
  /\ prevOp' = lastOp
  /\ lastReq' = req
  /\ UNCHANGED <<adminVars, input, output>>

\* part_001:58-73, up to the await
trigger ==
  /\ Len(apiReqs) < MaxRequests
  /\ apiReqs' = Append(abortPrior(apiReqs, apiRef),
                       [aborted |-> FALSE, phase |-> "fetching"])
  /\ apiRef' = Len(apiReqs) + 1
  /\ dispatch([type |-> "REQUEST", payload |-> 0, error |-> ""])
  /\ apiStep("trigger", 0)

\* part_001:100-104: the effect's cleanup (unmount, or trigger / triggerOnLoad
\* changed) aborts the current request
cleanup ==
  /\ apiRef # 0
  /\ ~apiReqs[apiRef].aborted
  /\ apiReqs' = abort(apiReqs, apiRef)
  /\ UNCHANGED <<apiState, apiRef>>
  /\ apiStep("cleanup", 0)

\* an aborted request: fetch or response.json() rejects with an AbortError, the
\* catch returns without a dispatch (part_001:81-85)
abortSettled(i) ==
  /\ i \in 1..Len(apiReqs)
  /\ apiReqs[i].phase # "settled"
  /\ apiReqs[i].aborted
  /\ apiReqs' = settle(apiReqs, i)
  /\ UNCHANGED <<apiState, apiRef>>
  /\ apiStep("abortSettled", i)

\* fetch resolves: !response.ok throws Error(statusText || "Something went
\* wrong!"), caught and dispatched as FAILURE (part_001:70-77, 87-90);
\* otherwise the body is read
fetchResolved(i, ok, statusText) ==
  /\ i \in 1..Len(apiReqs)
  /\ apiReqs[i].phase = "fetching"
  /\ ~apiReqs[i].aborted
  /\ IF ok
       THEN /\ apiReqs' = [apiReqs EXCEPT ![i].phase = "reading"]
            /\ UNCHANGED apiState
       ELSE /\ apiReqs' = settle(apiReqs, i)
            /\ dispatch([type |-> "FAILURE", payload |-> 0,
                         error |-> IF statusText = ""
                                     THEN "Something went wrong!"
                                     ELSE statusText])
  /\ UNCHANGED apiRef
  /\ apiStep("fetchResolved", i)

\* fetch (a transport error) or response.json() (a body that is not JSON)
\* rejects with an Error: FAILURE with its message (part_001:87-90)
requestRejected(i, message) ==
  /\ i \in 1..Len(apiReqs)
  /\ apiReqs[i].phase # "settled"
  /\ ~apiReqs[i].aborted
  /\ apiReqs' = settle(apiReqs, i)
  /\ dispatch([type |-> "FAILURE", payload |-> 0, error |-> message])
  /\ UNCHANGED apiRef
  /\ apiStep("requestRejected", i)

\* response.json() resolves: SUCCESS with the payload (part_001:79-80)
jsonResolved(i, payload) ==
  /\ i \in 1..Len(apiReqs)
  /\ apiReqs[i].phase = "reading"
  /\ ~apiReqs[i].aborted
  /\ apiReqs' = settle(apiReqs, i)
  /\ dispatch([type |-> "SUCCESS", payload |-> payload, error |-> ""])
  /\ UNCHANGED apiRef
  /\ apiStep("jsonResolved", i)

StatusTexts == {"", "Not Found"}
RejectMessages == {"Failed to fetch"}

\* The fetch layer: fetchData of AdminUI and useApiService, side by side.
FetchNext ==
  \/ \E n \in ResponseSizes : fetchSuccess(n)
  \/ fetchFailure
  \/ unmount
  \/ trigger
  \/ cleanup
  \/ \E i \in 1..MaxRequests : abortSettled(i)
  \/ \E i \in 1..MaxRequests, ok \in BOOLEAN, statusText \in StatusTexts :
       fetchResolved(i, ok, statusText)
  \/ \E i \in 1..MaxRequests, message \in RejectMessages :
       requestRejected(i, message)
  \/ \E i \in 1..MaxRequests : \E payload \in {0, i} : jsonResolved(i, payload)

FetchSpec == Init /\ [][FetchNext]_vars

(***************************************************************************)
(* The page window as a function of currentPage and totalPages              *)
(* (usePagination.ts:58-124), for every totalPages >= 1 and every           *)
(* currentPage in 1..totalPages.                                            *)
(***************************************************************************)
WindowInit ==
  /\ AdminInit
  /\ ApiInit
  /\ HistoryInit
  /\ \E tp \in 1..MaxPages : \E cp \in 1..tp :
       input = [currentPage |-> cp, totalPages |-> tp]
  /\ output = <<>>

computePagination ==
  /\ lastOp = "mount"
  /\ output' = paginationOf(input.currentPage, input.totalPages)
  /\ lastOp' = "pagination"
  /\ UNCHANGED <<adminVars, apiState, apiRef, apiReqs, lastReq, input, prevOp,
                 steps>>

WindowNext == computePagination

WindowSpec == WindowInit /\ [][WindowNext]_vars

(***************************************************************************)
(* The page slices of a list (usePaginatedList.ts:28-33) for any list and   *)
(* any page size: pages 0 .. totalPages are taken one after the other, the  *)
(* last of them lying beyond the end of the list.                           *)
(***************************************************************************)
SliceItems == {1, 2}

Lists == UNION {[1..n -> SliceItems] : n \in 0..MaxLen}

\* usePagination.ts:24-27 with pageSize as in the hook's state
totalPagesWith(count, pageSize) == Max(ceilDiv(count, pageSize), 1)

\* usePaginatedList.ts:28-33 with pageSize as in the hook's state
paginatedListWith(items, page, pageSize) ==
  slice(items, page * pageSize, (page + 1) * pageSize)

SliceInit ==
  /\ AdminInit
  /\ ApiInit
  /\ HistoryInit
  /\ \E items \in Lists : \E pageSize \in 1..MaxPageSize :
       input = [list |-> items, pageSize |-> pageSize]
  /\ output = <<>>

\* the slice of page Len(output) (0-based) is taken and appended to output
slicePage ==
  /\ Len(output) <= totalPagesWith(Len(input.list), input.pageSize)
  /\ output' = Append(output,
                      paginatedListWith(input.list, Len(output), input.pageSize))
  /\ lastOp' = "paginatedList"
  /\ UNCHANGED <<adminVars, apiState, apiRef, apiReqs, lastReq, input, prevOp,
                 steps>>

SliceNext == slicePage

SliceSpec == SliceInit /\ [][SliceNext]_vars

Next ==
  \/ \E n \in ResponseSizes : fetchSuccess(n)
  \/ fetchFailure
  \/ unmount
  \/ \E text \in SearchTexts : onSearch(text)
  \/ onSearchIconClick
  \/ onCheckboxClickAll
  \/ \E id \in 1..MaxRecords : onCheckboxClick(id)
  \/ onDeleteSelectedClick
  \/ \E id \in 1..MaxRecords : onDeleteClick(id)
  \/ \E id \in 1..MaxRecords : onEditClick(id)
  \/ \E value \in DraftNames : onNameEdit(value)
  \/ \E value \in DraftEmails : onEmailEdit(value)
  \/ \E value \in Roles : onRoleChange(value)
  \/ onSaveClick
  \/ \E page \in 1..MaxRecords : goToPage(page)
  \/ nextPage
  \/ previousPage
  \/ firstPage
  \/ lastPage

Spec == Init /\ [][Next]_vars

(***************************************************************************)
(* Claims.                                                                 *)
(***************************************************************************)
ids(items) == {items[i].id : i \in 1..Len(items)}
selectedIn(items) == {items[i].id : i \in {j \in 1..Len(items) : items[j].delete}}
\* the indices of `original` that lie on page `page` (1-based page)
pageIndices(items, page) ==
  {i \in 1..Len(items) : (i - 1) \div PAGE_SIZE = page - 1}

\* C1: in every reachable state 1 <= currentPage <= totalPages, where
\* totalPages = max(ceil(count / pageSize), 1).
C1_CurrentPageInRange ==
  /\ totalPages = Max(ceilDiv(Len(original), PAGE_SIZE), 1)
  /\ 1 <= currentPage
  /\ currentPage <= totalPages

\* C2: when a delete removes records so that the new totalPages is smaller than
\* currentPage, currentPage equals the new totalPages once the delete is done.
C2_DeleteClampsCurrentPage ==
  [][(/\ lastOp' \in {"onDeleteClick", "onDeleteSelectedClick"}
      /\ totalPagesOf(Len(original')) < currentPage)
       => currentPage' = totalPagesOf(Len(original'))]_vars

\* C3: after a search is executed, totalPages is computed from the filtered
\* count and currentPage is clamped to it.
C3_SearchRecomputesPagination ==
  lastOp = "onSearchIconClick" =>
    /\ totalPages = totalPagesOf(Len(searchFilter(original, queryText)))
    /\ 1 <= currentPage
    /\ currentPage <= totalPages

\* C4: in every reachable state the displayed list is the page slice
\* slice(filteredList, currentPage - 1, pageSize) of the canonical list narrowed
\* by the executed search query, so it never holds more than pageSize records.
C4_ViewIsPageSliceOfFiltered ==
  /\ list = paginatedListOf(searchFilter(original, queryText), currentPage - 1)
  /\ Len(list) <= PAGE_SIZE

\* C5: a save for an edit begun on the record with id X, X still being in the
\* canonical list, writes the draft to the record with id X and to no other
\* record, and changes no id.
C5_SaveWritesEditedRecordById ==
  [][(lastOp' = "onSaveClick" /\ editTarget \in ids(original)) =>
       /\ Len(original') = Len(original)
       /\ \A i \in 1..Len(original) :
            original'[i] =
              IF original[i].id = editTarget
                THEN [original[i] EXCEPT !.name = name, !.email = email,
                                         !.role = role]
                ELSE original[i]]_vars

\* C6: a save for an edit whose record has been deleted meanwhile leaves the
\* canonical list as it is.
C6_SaveOfDeletedRecordIsNoOp ==
  [][(lastOp' = "onSaveClick" /\ editTarget \notin ids(original)) =>
       original' = original]_vars

\* C7: the edit session is reset to Idle on save and whenever currentPage
\* changes: afterwards no row is in edit mode.
C7_EditResetOnSaveAndPageChange ==
  [][(lastOp' = "onSaveClick" \/ currentPage' # currentPage) =>
       (editIndex' = -1 /\ name' = <<>> /\ email' = <<>> /\ role' = "member")]_vars

\* C8: after deleteSelected the canonical list holds no record that was
\* selected before the call (visible or not), no record is selected, and the
\* records that were not selected remain, unchanged and in their order.
C8_DeleteSelectedRemovesExactlySelected ==
  [][lastOp' = "onDeleteSelectedClick" =>
       LET kept == {i \in 1..Len(original) : ~original[i].delete} IN
         /\ ids(original') \cap selectedIn(original) = {}
         /\ selectedIn(original') = {}
         /\ Len(original') = Cardinality(kept)
         /\ \A i \in kept : \E k \in 1..Len(original') : original'[k] = original[i]
         /\ \A i, j \in kept :
              i < j => \A k, l \in 1..Len(original') :
                         (original'[k] = original[i] /\ original'[l] = original[j])
                           => k < l]_vars

\* C8 witness: deleteSelected has run with a selected record that was not in the
\* displayed list and one that was, and some record remains.
C8_Witness ==
  /\ lastOp = "onDeleteSelectedClick"
  /\ \E i \in 1..Len(prevOriginal) :
       /\ prevOriginal[i].delete
       /\ prevOriginal[i].id \notin ids(prevList)
  /\ \E i \in 1..Len(prevOriginal) :
       /\ prevOriginal[i].delete
       /\ prevOriginal[i].id \in ids(prevList)
  /\ Len(original) > 0
  /\ Len(original) < Len(prevOriginal)

\* C9: in every reachable state the count that gates the bulk delete equals the
\* number of selected records of the canonical list.
C9_SelectedCountCountsAllSelected ==
  selectedCount = Cardinality(selectedIn(original))

\* C10: the select-all checkbox: if every record of the current page is
\* selected, afterwards none of them is; otherwise afterwards all of them are.
C10_TogglePageAllOrNone ==
  [][lastOp' = "onCheckboxClickAll" =>
       LET page == pageIndices(original, currentPage) IN
         IF \A i \in page : original[i].delete
           THEN \A i \in page : ~original'[i].delete
           ELSE \A i \in page : original'[i].delete]_vars

\* C11: the select-all checkbox changes the selection flag only of records that
\* are in the displayed list, also when that list is the result of a search.
C11_TogglePageOnlyShownRecords ==
  [][lastOp' = "onCheckboxClickAll" =>
       /\ Len(original') = Len(original)
       /\ \A i \in 1..Len(original) :
            original[i].id \notin ids(list) => original'[i] = original[i]]_vars

\* C12: two select-all clicks in succession, nothing in between, return the
\* selection flag of every record to the value it had before the first click.
C12_TogglePageTwiceRestores ==
  [][(lastOp = "onCheckboxClickAll" /\ lastOp' = "onCheckboxClickAll") =>
       original' = prevOriginal]_vars

\* C12 witness: two select-all clicks in succession have run on a page where
\* some records, not all, were selected.
C12_Witness ==
  /\ lastOp = "onCheckboxClickAll"
  /\ prevOp = "onCheckboxClickAll"
  /\ \E i, j \in pageIndices(original, currentPage) :
       original[i].delete /\ ~original[j].delete
  /\ prevOriginal # original

\* C13: when the fetched records are applied, the canonical list is the fetched
\* list, the search text is empty, currentPage is 1 and totalPages is
\* max(ceil(count / pageSize), 1), whatever was typed or clicked while loading.
C13_InitializeResetsState ==
  lastOp = "fetchSuccess" =>
    /\ \E n \in ResponseSizes : original = Response(n)
    /\ searchText = <<>>
    /\ currentPage = 1
    /\ totalPages = Max(ceilDiv(Len(original), PAGE_SIZE), 1)

\* C14: in useApiService a trigger aborts the request in flight before it starts
\* the new one; the completion of an aborted request leaves data, error and
\* loading as they were; and a completion that changes them is the completion
\* of the most recent request.
C14_SupersededRequestNeverApplied ==
  [][/\ (lastOp' = "trigger" /\ apiRef # 0) => apiReqs'[apiRef].aborted
     /\ (lastReq' # 0 /\ apiReqs[lastReq'].aborted) => apiState' = apiState
     /\ (lastReq' # 0 /\ apiState' # apiState) => lastReq' = apiRef]_vars

\* C14 witness: request 1 was superseded by request 2 and has completed as
\* aborted, and the payload of request 2 is the stored data.
C14_Witness ==
  /\ Len(apiReqs) >= 2
  /\ apiReqs[1].aborted
  /\ apiReqs[1].phase = "settled"
  /\ apiRef = 2
  /\ apiState = [data |-> Some(2), error |-> Null, loading |-> FALSE]

\* C15: an abort of the outstanding request sets no error message and leaves a
\* state without an error (AdminUI: error stays empty, loading is off;
\* useApiService: the state is untouched, and has no error when the aborted
\* request is the only one so far); a non-success response or a
\* transport error sets one error message where there was none and ends
\* loading.
C15_AbortSilentFailureReported ==
  [][/\ lastOp' = "unmount" => (error' = error /\ error' = "" /\ ~loading')
     /\ lastOp' \in {"cleanup", "abortSettled"} => apiState' = apiState
     /\ (lastOp' = "abortSettled" /\ Len(apiReqs) = 1) => apiState'.error = Null
     /\ lastOp' = "fetchFailure" => (error = "" /\ error' # "" /\ ~loading')
     /\ (lastReq' # 0 /\ apiState' # apiState
           /\ lastOp' \in {"fetchResolved", "requestRejected"}) =>
          /\ apiState.error = Null
          /\ apiState'.error # Null
          /\ Len(apiState'.error) = 1
          /\ ~apiState'.loading]_vars

\* C15 witness: AdminUI was unmounted with its request outstanding and shows no
\* error, and useApiService has reported a non-success response.
C15_Witness ==
  /\ lastOp = "unmount"
  /\ ~mounted
  /\ error = ""
  /\ ~loading
  /\ apiState = [data |-> Null, error |-> Some("Not Found"), loading |-> FALSE]

\* the page numbers of a window, left to right, gap markers left out
pageNumbers(window) ==
  LET pages == SelectSeq(window, LAMBDA token : ~token.gap)
  IN  [i \in 1..Len(pages) |-> pages[i].value]

\* the positions of the gap markers of a window
gapsOf(window) == {k \in 1..Len(window) : window[k].gap}

\* C16: for every totalPages >= 1 and currentPage in 1..totalPages the page
\* numbers of the window are strictly increasing from left to right (so none
\* occurs twice) and no two gap markers are adjacent.
C16_WindowStrictlyIncreasing ==
  lastOp = "pagination" =>
    LET pages == pageNumbers(output) IN
      /\ \A i \in 1..(Len(pages) - 1) : pages[i] < pages[i + 1]
      /\ \A i, j \in 1..Len(pages) : i # j => pages[i] # pages[j]
      /\ \A k \in 1..(Len(output) - 1) : ~(output[k].gap /\ output[k + 1].gap)

\* C16 witness: a computed window with a gap marker on each side of the
\* sibling block.
C16_Witness ==
  /\ lastOp = "pagination"
  /\ Cardinality(gapsOf(output)) = 2
  /\ Len(pageNumbers(output)) = 5

\* C17: every gap marker of the window stands between two page numbers and for
\* at least two skipped pages; none is emitted where the pages skipped between
\* the boundary block and the sibling block are none or a single page.
C17_GapStandsForTwoOrMore ==
  lastOp = "pagination" =>
    \A k \in gapsOf(output) :
      /\ 1 < k
      /\ k < Len(output)
      /\ ~output[k - 1].gap
      /\ ~output[k + 1].gap
      /\ output[k + 1].value - output[k - 1].value - 1 >= 2

FieldEdits == {"onNameEdit", "onEmailEdit", "onRoleChange"}

\* the rows of the displayed list that are in edit mode
rowsInEditMode == {i \in 1..Len(list) : editIndex = i - 1}

\* C18: entering edit mode and changing the draft's fields leave every record
\* of the canonical list unchanged; entering edit mode on a record replaces the
\* draft by that record's values; at most one row is in edit mode in every
\* reachable state.
C18_EditSwitchDiscardsDraft ==
  /\ [](Cardinality(rowsInEditMode) <= 1)
  /\ [][lastOp' \in FieldEdits \cup {"onEditClick"} => original' = original]_vars
  /\ [][lastOp' = "onEditClick" =>
          /\ editIndex' \in 0..(Len(list') - 1)
          /\ list'[editIndex' + 1].id = editTarget'
          /\ name' = list'[editIndex' + 1].name
          /\ email' = list'[editIndex' + 1].email
          /\ role' = list'[editIndex' + 1].role]_vars

\* C18 witness: the draft of one record was changed and edit mode was then
\* entered on another record, without a save; the draft now holds the other
\* record's values.
C18_Witness ==
  /\ lastOp = "onEditClick"
  /\ prevOp \in FieldEdits
  /\ editIndex >= 0
  /\ name = list[editIndex + 1].name
  /\ name \notin DraftNames
  /\ original = prevOriginal

\* C19: after a search run with the empty text the displayed (filtered) list is
\* the canonical list, the same records in the same order, and the search has
\* left the canonical list as it was.
C19_EmptySearchShowsCanonicalList ==
  (lastOp = "onSearchIconClick" /\ queryText = <<>>) =>
    /\ list = original
    /\ original = prevOriginal

\* C19 witness: a search with the empty text has run over a canonical list of
\* more than one page, after a search that had narrowed the list.
C19_Witness ==
  /\ lastOp = "onSearchIconClick"
  /\ queryText = <<>>
  /\ Len(original) > PAGE_SIZE
  /\ list = original
  /\ prevList # original

\* the concatenation of the first n sequences of pages
RECURSIVE concat(_, _)
concat(pages, n) ==
  IF n = 0 THEN <<>> ELSE concat(pages, n - 1) \o pages[n]

\* C20: for every list and every page size > 0 the slices of pages
\* 0 .. totalPages-1, concatenated in order, are the list; the slice of the
\* page beyond the end is empty; taking slices leaves the list as it was.
C20_SlicesRoundTrip ==
  /\ [](LET tp == totalPagesWith(Len(input.list), input.pageSize) IN
          /\ Len(output) >= tp => concat(output, tp) = input.list
          /\ Len(output) > tp => output[tp + 1] = <<>>)
  /\ [][input' = input]_vars

\* C20 witness: every page of a list of more than one page, the last of them
\* partly filled, has been sliced, and the page beyond the end as well.
C20_Witness ==
  LET tp == totalPagesWith(Len(input.list), input.pageSize) IN
    /\ lastOp = "paginatedList"
    /\ tp >= 2
    /\ Len(input.list) % input.pageSize # 0
    /\ Len(output) = tp + 1
    /\ Len(output[tp]) < input.pageSize
    /\ concat(output, tp) = input.list

\* the operations that write the canonical list, and those of the page buttons
Mutations ==
  {"onCheckboxClick", "onCheckboxClickAll", "onDeleteClick",
   "onDeleteSelectedClick", "onSaveClick"}
PageChanges == {"goToPage", "nextPage", "previousPage", "firstPage", "lastPage"}

\* C21: an operation that writes the canonical list, or one that changes
\* currentPage, replaces the displayed list by the slice of the canonical list
\* for currentPage (so a search result shown before it is dropped); the page
\* change empties the search text, the write leaves it as typed.
C21_MutationOrPageChangeDropsSearchResult ==
  [][/\ lastOp' \in Mutations =>
          /\ list' = paginatedListOf(original', currentPage' - 1)
          /\ searchText' = searchText
          /\ currentPage' = currentPage
     /\ (lastOp' \in PageChanges /\ currentPage' # currentPage) =>
          /\ list' = paginatedListOf(original', currentPage' - 1)
          /\ searchText' = <<>>
          /\ original' = original]_vars

\* C21 witness: a search had narrowed the displayed list, the next operation
\* wrote the canonical list, and the displayed list is the page slice again,
\* with records the search had left out, the search text still as typed.
C21_Witness ==
  /\ lastOp \in Mutations
  /\ prevOp = "onSearchIconClick"
  /\ queryText # <<>>
  /\ searchText = queryText
  /\ prevList # paginatedListOf(prevOriginal, currentPage - 1)
  /\ list = paginatedListOf(original, currentPage - 1)
  /\ \E i \in 1..Len(list) : list[i].id \notin ids(prevList)

====
